---- MODULE Spec2Model ----
(***************************************************************************)
(* Model of app/analyzer.py: the ABAP performance analyzer.                *)
(*                                                                         *)
(* Text is modelled as a sequence of tokens.  A token is one word or one   *)
(* significant character of the source text:                               *)
(*   "SP"  a whitespace character inside a line                            *)
(*   "NL"  a line feed, "CR" a carriage return                             *)
(*   "STAR" the character *, "QUOTE" the character "                       *)
(*   "LOOP" "DO" "WHILE" "ENDLOOP" "ENDDO" "ENDWHILE" "SELECT" keywords    *)
(*   (and "loop", "select": the same words in lower case)                  *)
(*   "-OPTIONS" the suffix that makes SELECT a SELECT-OPTIONS              *)
(*   "FAE" the phrase FOR ALL ENTRIES IN                                   *)
(*   "x", "y" any other word                                               *)
(* Line indices are 0-based as in the source; lines[i+1] is line index i.  *)
(* An optional value (None in the source) is <<>>, a present value v is    *)
(* the one-element sequence <<v>>.                                         *)
(***************************************************************************)
EXTENDS Integers, Sequences, FiniteSets, TLC

VARIABLES item, pc, lines, raw_findings, loop_blocks, reads, result

vars == <<item, pc, lines, raw_findings, loop_blocks, reads, result>>

\* Longest line sequence of the exhaustively enumerated inputs.
MaxLen == 4

Min(a, b) == IF a < b THEN a ELSE b
Max(a, b) == IF a > b THEN a ELSE b

None == "None"

SUGGEST_NESTED_LOOPS == "avoid nested loop for performance optimization."
SUGGEST_SELECT_IN_LOOP == "avoid select inside loop for performance optimization."
SUGGEST_FOR_ALL_ENTRIES == "avoid select with for all entries , with relevant select on Join condition."

-----------------------------------------------------------------------------
(* Text primitives: str.strip, str.lstrip, re.IGNORECASE, "\n".join *)

IsWhitespace(t) == t \in {"SP", "NL", "CR"}

\* re.IGNORECASE: the upper-case form of a word
Upper(t) == CASE t = "loop" -> "LOOP"
              [] t = "select" -> "SELECT"
              [] OTHER -> t

RECURSIVE lstrip(_)
lstrip(s) == IF s # <<>> /\ IsWhitespace(Head(s)) THEN lstrip(Tail(s)) ELSE s

RECURSIVE rstrip(_)
rstrip(s) == IF s # <<>> /\ IsWhitespace(s[Len(s)])
             THEN rstrip(SubSeq(s, 1, Len(s) - 1)) ELSE s

strip(s) == rstrip(lstrip(s))

\* "\n".join(ss)
RECURSIVE join_nl(_)
join_nl(ss) == IF ss = <<>> THEN <<>>
               ELSE IF Len(ss) = 1 THEN ss[1]
               ELSE ss[1] \o <<"NL">> \o join_nl(Tail(ss))

\* a pattern ^\s*KEYWORD\b matches text
MatchesKeyword(text, kw) ==
    LET t == lstrip(text) IN t # <<>> /\ Upper(Head(t)) = kw

RE_LOOP_START(text) == MatchesKeyword(text, "LOOP")
RE_DO_START(text) == MatchesKeyword(text, "DO")
RE_WHILE_START(text) == MatchesKeyword(text, "WHILE")
RE_ENDLOOP(text) == MatchesKeyword(text, "ENDLOOP")
RE_ENDDO(text) == MatchesKeyword(text, "ENDDO")
RE_ENDWHILE(text) == MatchesKeyword(text, "ENDWHILE")

\* ^\s*SELECT(?!-OPTIONS)\b
RE_SELECT_SQL(text) ==
    LET t == lstrip(text)
    IN  /\ t # <<>>
        /\ Upper(Head(t)) = "SELECT"
        /\ ~(Len(t) >= 2 /\ t[2] = "-OPTIONS")

\* \bFOR\s+ALL\s+ENTRIES\s+IN\b, searched anywhere in the text
RE_FOR_ALL_ENTRIES(text) == \E k \in 1..Len(text) : text[k] = "FAE"

-----------------------------------------------------------------------------
(* Line Normalizer and Comment Stripper *)

strip_abab_line_comments_NoStar(line) ==
    IF \E q \in 1..Len(line) : line[q] = "QUOTE"
    THEN SubSeq(line, 1, (CHOOSE q \in 1..Len(line) :
                            /\ line[q] = "QUOTE"
                            /\ \A r \in 1..(q - 1) : line[r] # "QUOTE") - 1)
    ELSE line

strip_abab_line_comments(line) ==
    IF lstrip(line) # <<>> /\ Head(lstrip(line)) = "STAR"
    THEN <<>>
    ELSE IF \E q \in 1..Len(line) : line[q] = "QUOTE"
    THEN SubSeq(line, 1, (CHOOSE q \in 1..Len(line) :
                            /\ line[q] = "QUOTE"
                            /\ \A r \in 1..(q - 1) : line[r] # "QUOTE") - 1)
    ELSE line

\* text.replace("\r\n", "\n").replace("\r", "\n")
RECURSIVE normalize_newlines(_)
normalize_newlines(text) ==
    IF text = <<>> THEN <<>>
    ELSE IF Head(text) = "CR"
    THEN IF Len(text) >= 2 /\ text[2] = "NL"
         THEN <<"NL">> \o normalize_newlines(SubSeq(text, 3, Len(text)))
         ELSE <<"NL">> \o normalize_newlines(Tail(text))
    ELSE <<Head(text)>> \o normalize_newlines(Tail(text))

\* code.split("\n"): the list of the texts between line feeds, never empty
RECURSIVE split_nl(_, _)
split_nl(text, cur) ==
    IF text = <<>> THEN <<cur>>
    ELSE IF Head(text) = "NL" THEN <<cur>> \o split_nl(Tail(text), <<>>)
    ELSE split_nl(Tail(text), Append(cur, Head(text)))

build_lines(code) ==
    LET ls == split_nl(normalize_newlines(code), <<>>)
    IN  [i \in 1..Len(ls) |->
            [no |-> i, raw |-> ls[i], clean |-> strip_abab_line_comments(ls[i])]]

is_loop_start(text) ==
    IF RE_LOOP_START(text) THEN "LOOP"
    ELSE IF RE_DO_START(text) THEN "DO"
    ELSE IF RE_WHILE_START(text) THEN "WHILE"
    ELSE None

is_loop_end(text) ==
    IF RE_ENDLOOP(text) THEN "LOOP"
    ELSE IF RE_ENDDO(text) THEN "DO"
    ELSE IF RE_ENDWHILE(text) THEN "WHILE"
    ELSE None

\* not clean.strip()
IsBlank(text) == strip(text) = <<>>

-----------------------------------------------------------------------------
(* Block Boundary Resolver *)

\* the value of an absent index (None)
NoMatch == -1

\* lines[i]["clean"] and lines[i]["raw"]; an index outside the list is an
\* IndexError in the source
\* (a negative index counts from the end of a Python list)
list_pos(ls, i) ==
    IF i \in 0..(Len(ls) - 1) THEN i + 1
    ELSE IF i \in (0 - Len(ls))..(-1) THEN Len(ls) + i + 1
    ELSE 0
clean_at(ls, i) == IF list_pos(ls, i) = 0 THEN <<"IndexError">> ELSE ls[list_pos(ls, i)].clean
raw_at(ls, i) == IF list_pos(ls, i) = 0 THEN <<"IndexError">> ELSE ls[list_pos(ls, i)].raw

\* the body of find_matching_end's for loop, from index i on
RECURSIVE scan_matching_end_AnyKind(_, _, _, _)
scan_matching_end_AnyKind(ls, i, depth, block_type) ==
    IF i >= Len(ls) THEN NoMatch
    ELSE LET clean == clean_at(ls, i)
         IN  IF IsBlank(clean)
             THEN scan_matching_end_AnyKind(ls, i + 1, depth, block_type)
             ELSE IF is_loop_start(clean) # None
             THEN scan_matching_end_AnyKind(ls, i + 1, depth + 1, block_type)
             ELSE IF is_loop_end(clean) = block_type
             THEN IF depth - 1 = 0 THEN i
                  ELSE scan_matching_end_AnyKind(ls, i + 1, depth - 1, block_type)
             ELSE scan_matching_end_AnyKind(ls, i + 1, depth, block_type)

RECURSIVE scan_matching_end(_, _, _, _)
scan_matching_end(ls, i, depth, block_type) ==
    IF i >= Len(ls) THEN NoMatch
    ELSE LET clean == clean_at(ls, i)
         IN  IF IsBlank(clean)
             THEN scan_matching_end(ls, i + 1, depth, block_type)
             ELSE IF is_loop_start(clean) = block_type
             THEN scan_matching_end(ls, i + 1, depth + 1, block_type)
             ELSE IF is_loop_end(clean) = block_type
             THEN IF depth - 1 = 0 THEN i
                  ELSE scan_matching_end(ls, i + 1, depth - 1, block_type)
             ELSE scan_matching_end(ls, i + 1, depth, block_type)

find_matching_end_AnyKind(ls, start_idx, block_type) ==
    scan_matching_end_AnyKind(ls, start_idx + 1, 1, block_type)

find_matching_end(ls, start_idx, block_type) ==
    scan_matching_end(ls, start_idx + 1, 1, block_type)

\* the indices find_matching_end reads: range(start_idx + 1, len(lines)) up to
\* the index it returns
find_matching_end_reads(ls, start_idx, block_type) ==
    LET e == find_matching_end(ls, start_idx, block_type)
    IN  (start_idx + 1)..(IF e = NoMatch THEN Len(ls) - 1 ELSE e)

\* for s in range(len(stack) - 1, -1, -1): if t == end_type: the position
\* (1-based) of the nearest entry of the kind, 0 when there is none
nearest_of_kind(stack, kind) ==
    IF \E s \in 1..Len(stack) : stack[s].t = kind
    THEN CHOOSE s \in 1..Len(stack) :
            /\ stack[s].t = kind
            /\ \A r \in (s + 1)..Len(stack) : stack[r].t # kind
    ELSE 0

\* stack = stack[:s]
pop_to(stack, kind) ==
    LET s == nearest_of_kind(stack, kind)
    IN  IF s = 0 THEN stack ELSE SubSeq(stack, 1, s - 1)

\* one iteration of collect_loop_blocks' loop; st = [stack, blocks]
collect_step_KeepStack(st, ls, idx) ==
    LET clean == clean_at(ls, idx)
        start_type == is_loop_start(clean)
        end_type == is_loop_end(clean)
    IN  IF IsBlank(clean) THEN st
        ELSE IF start_type # None
        THEN [st EXCEPT !.stack = Append(@, [t |-> start_type, idx |-> idx])]
        ELSE IF end_type # None /\ nearest_of_kind(st.stack, end_type) # 0
        THEN LET s == nearest_of_kind(st.stack, end_type)
             IN  [stack |-> SubSeq(st.stack, 1, s - 1) \o SubSeq(st.stack, s + 1, Len(st.stack)),
                  blocks |-> Append(st.blocks,
                                    [type |-> st.stack[s].t,
                                     start_idx |-> st.stack[s].idx,
                                     end_idx |-> idx])]
        ELSE st

collect_step(st, ls, idx) ==
    LET clean == clean_at(ls, idx)
        start_type == is_loop_start(clean)
        end_type == is_loop_end(clean)
    IN  IF IsBlank(clean) THEN st
        ELSE IF start_type # None
        THEN [st EXCEPT !.stack = Append(@, [t |-> start_type, idx |-> idx])]
        ELSE IF end_type # None /\ nearest_of_kind(st.stack, end_type) # 0
        THEN LET s == nearest_of_kind(st.stack, end_type)
             IN  [stack |-> SubSeq(st.stack, 1, s - 1),
                  blocks |-> Append(st.blocks,
                                    [type |-> st.stack[s].t,
                                     start_idx |-> st.stack[s].idx,
                                     end_idx |-> idx])]
        ELSE st

RECURSIVE collect_scan(_, _, _)
collect_scan(st, ls, idx) ==
    IF idx >= Len(ls) THEN st
    ELSE collect_scan(collect_step(st, ls, idx), ls, idx + 1)

\* blocks.sort(key=lambda b: b["start_idx"]): a stable sort
RECURSIVE insert_by_start(_, _)
insert_by_start(b, sorted) ==
    IF sorted = <<>> THEN <<b>>
    ELSE IF b.start_idx < Head(sorted).start_idx THEN <<b>> \o sorted
    ELSE <<Head(sorted)>> \o insert_by_start(b, Tail(sorted))

RECURSIVE sort_by_start(_)
sort_by_start(blocks) ==
    IF blocks = <<>> THEN <<>>
    ELSE insert_by_start(blocks[Len(blocks)],
                         sort_by_start(SubSeq(blocks, 1, Len(blocks) - 1)))

collect_loop_blocks_Unsorted(ls) ==
    collect_scan([stack |-> <<>>, blocks |-> <<>>], ls, 0).blocks

collect_loop_blocks(ls) ==
    sort_by_start(collect_scan([stack |-> <<>>, blocks |-> <<>>], ls, 0).blocks)

-----------------------------------------------------------------------------
(* Nested-Block Rule *)

\* min(inner_end_idx, inner_start_idx + 11)
MATCHED_CLIP == 11
\* min(len(lines) - 1, inner_start_idx + 5)
UNMATCHED_CLIP == 5

nested_end_clip_NoClamp(ls, inner_start_idx, inner_end_idx) ==
    IF inner_end_idx # NoMatch
    THEN Min(inner_end_idx, inner_start_idx + MATCHED_CLIP)
    ELSE inner_start_idx + UNMATCHED_CLIP

nested_end_clip(ls, inner_start_idx, inner_end_idx) ==
    IF inner_end_idx # NoMatch
    THEN Min(inner_end_idx, inner_start_idx + MATCHED_CLIP)
    ELSE Min(Len(ls) - 1, inner_start_idx + UNMATCHED_CLIP)

\* [lines[j]["raw"] for j in range(lo, hi + 1)]
raw_range(ls, lo, hi) == [k \in 1..(hi - lo + 1) |-> raw_at(ls, lo + k - 1)]

nested_finding(ls, idx, stype) ==
    LET inner_end_idx == find_matching_end(ls, idx, stype)
        end_clip == nested_end_clip(ls, idx, inner_end_idx)
    IN  [suggestion |-> SUGGEST_NESTED_LOOPS,
         snippet |-> strip(join_nl(raw_range(ls, idx, end_clip))),
         line |-> ls[idx + 1].no]

\* one iteration of find_nested_loops' loop; st = [stack, findings]
nested_step_AlwaysReport(st, ls, idx) ==
    LET text == clean_at(ls, idx)
        stype == is_loop_start(text)
        etype == is_loop_end(text)
    IN  IF IsBlank(text) THEN st
        ELSE IF stype # None
        THEN [stack |-> Append(st.stack, [t |-> stype, idx |-> idx]),
              findings |-> Append(st.findings, nested_finding(ls, idx, stype))]
        ELSE IF etype # None
        THEN [st EXCEPT !.stack = pop_to(@, etype)]
        ELSE st

nested_step(st, ls, idx) ==
    LET text == clean_at(ls, idx)
        stype == is_loop_start(text)
        etype == is_loop_end(text)
    IN  IF IsBlank(text) THEN st
        ELSE IF stype # None
        THEN [stack |-> Append(st.stack, [t |-> stype, idx |-> idx]),
              findings |-> IF \E s \in 1..Len(st.stack) :
                                    st.stack[s].t \in {"LOOP", "DO", "WHILE"}
                           THEN Append(st.findings, nested_finding(ls, idx, stype))
                           ELSE st.findings]
        ELSE IF etype # None
        THEN [st EXCEPT !.stack = pop_to(@, etype)]
        ELSE st

RECURSIVE nested_scan(_, _, _)
nested_scan(st, ls, idx) ==
    IF idx >= Len(ls) THEN st
    ELSE nested_scan(nested_step(st, ls, idx), ls, idx + 1)

find_nested_loops(ls) ==
    nested_scan([stack |-> <<>>, findings |-> <<>>], ls, 0).findings

\* the line indices find_nested_loops reads beyond its own enumeration: those
\* of find_matching_end, of the snippet and of the finding's line
RECURSIVE nested_reads(_, _, _)
nested_reads(st, ls, idx) ==
    IF idx >= Len(ls) THEN {}
    ELSE LET next == nested_step(st, ls, idx)
             stype == is_loop_start(clean_at(ls, idx))
         IN  (IF Len(next.findings) > Len(st.findings)
              THEN find_matching_end_reads(ls, idx, stype)
                   \cup (idx..nested_end_clip(ls, idx, find_matching_end(ls, idx, stype)))
                   \cup {idx}
              ELSE {})
             \cup nested_reads(next, ls, idx + 1)

find_nested_loops_reads(ls) ==
    nested_reads([stack |-> <<>>, findings |-> <<>>], ls, 0)

-----------------------------------------------------------------------------
(* Retrieval-in-Block Rule *)

\* the inner loop of find_select_inside_loops over one block, from index i on;
\* st = [reported, findings]
RECURSIVE select_scan(_, _, _, _)
select_scan(st, ls, block, i) ==
    IF i >= block.end_idx + 1 THEN st
    ELSE LET clean == clean_at(ls, i)
             line_no == ls[i + 1].no
         IN  IF RE_SELECT_SQL(clean) /\ line_no \notin st.reported
             THEN select_scan(
                    [reported |-> st.reported \cup {line_no},
                     findings |-> Append(st.findings,
                        [suggestion |-> SUGGEST_SELECT_IN_LOOP,
                         snippet |-> strip(raw_at(ls, block.start_idx)) \o <<"NL">>
                                       \o strip(raw_at(ls, i)),
                         line |-> line_no])],
                    ls, block, i + 1)
             ELSE select_scan(st, ls, block, i + 1)

select_in_block(ls, block) ==
    select_scan([reported |-> {}, findings |-> <<>>], ls, block, block.start_idx + 1).findings

\* reported_line_nos kept across blocks instead of per block
RECURSIVE select_all_GlobalDedup(_, _, _)
select_all_GlobalDedup(st, ls, blocks) ==
    IF blocks = <<>> THEN st
    ELSE select_all_GlobalDedup(
            select_scan(st, ls, Head(blocks), Head(blocks).start_idx + 1), ls, Tail(blocks))

find_select_inside_loops_GlobalDedup(ls, blocks) ==
    select_all_GlobalDedup([reported |-> {}, findings |-> <<>>], ls, blocks).findings

RECURSIVE find_select_inside_loops(_, _)
find_select_inside_loops(ls, blocks) ==
    IF blocks = <<>> THEN <<>>
    ELSE select_in_block(ls, Head(blocks)) \o find_select_inside_loops(ls, Tail(blocks))

find_select_inside_loops_reads(ls, blocks) ==
    UNION {{blocks[b].start_idx} \cup ((blocks[b].start_idx + 1)..blocks[b].end_idx) :
             b \in 1..Len(blocks)}

-----------------------------------------------------------------------------
(* Bulk-Retrieval-Without-Join Rule *)

fae_start_NoClamp(ls, i) == i - 1
fae_start(ls, i) == Max(0, i - 1)
fae_end(ls, i) == Min(Len(ls) - 1, i + 1)

RECURSIVE fae_scan(_, _)
fae_scan(ls, i) ==
    IF i >= Len(ls) THEN <<>>
    ELSE (IF RE_FOR_ALL_ENTRIES(clean_at(ls, i))
          THEN <<[suggestion |-> SUGGEST_FOR_ALL_ENTRIES,
                  snippet |-> strip(join_nl(raw_range(ls, fae_start(ls, i), fae_end(ls, i)))),
                  line |-> ls[i + 1].no]>>
          ELSE <<>>)
         \o fae_scan(ls, i + 1)

find_for_all_entries(ls) == fae_scan(ls, 0)

find_for_all_entries_reads(ls) ==
    UNION {fae_start(ls, i)..fae_end(ls, i) :
             i \in {j \in 0..(Len(ls) - 1) : RE_FOR_ALL_ENTRIES(clean_at(ls, j))}}

-----------------------------------------------------------------------------
(* Finding Assembler *)

\* item.get("code", "") or ""
code_of(it) == IF it.code = <<>> THEN <<>> ELSE it.code[1]

\* item.get("start_line") or 1
base_start_line(it) ==
    IF it.start_line = <<>> \/ it.start_line[1] = 0 THEN 1 ELSE it.start_line[1]

abs_line(it, f) ==
    IF f.line > 0 THEN base_start_line(it) + f.line - 1 ELSE base_start_line(it)

final_finding(it, f) ==
    [prog_name |-> it.pgm_name,
     incl_name |-> it.inc_name,
     types |-> it.type,
     blockname |-> it.name,
     starting_line |-> abs_line(it, f),
     ending_line |-> abs_line(it, f),
     issues_type |-> "PerformanceIssue",
     severity |-> "error",
     message |-> <<"Performance issue: ", f.suggestion>>,
     suggestion |-> f.suggestion,
     snippet |-> f.snippet]

analyze_result(it, raw) ==
    [pgm_name |-> it.pgm_name,
     inc_name |-> it.inc_name,
     type |-> it.type,
     name |-> it.name,
     code |-> code_of(it),
     findings |-> [k \in 1..Len(raw) |-> final_finding(it, raw[k])]]

-----------------------------------------------------------------------------
(* Inputs: the analysis units submitted to analyze_item *)

SeqsUpTo(S, n) == UNION {[1..k -> S] : k \in 0..n}

\* Lines of the first exhaustive family: two block kinds, a retrieval, a
\* bulk retrieval, a line comment.
LinesA == {<<"LOOP">>, <<"ENDLOOP">>, <<"WHILE">>, <<"ENDWHILE">>,
           <<"SELECT">>, <<"x", "FAE">>, <<"STAR", "FAE">>}

\* Lines of the second exhaustive family: the third block kind, leading
\* whitespace, lower case, inline comments, SELECT-OPTIONS, blank lines.
LinesB == {<<"SP", "DO">>, <<"ENDDO">>, <<"loop", "QUOTE", "FAE">>, <<"ENDLOOP">>,
           <<"SELECT", "-OPTIONS">>, <<"select", "FAE">>,
           <<"SP", "STAR", "SELECT">>, <<>>}

X10 == [k \in 1..10 |-> <<"x">>]

\* Named inputs longer than MaxLen.
ScenarioLines ==
    { \* the example request of app/routes.py
      << <<"LOOP", "x">>, <<"SP", "SELECT", "x">>, <<"SP", "LOOP", "y">>,
         <<"SP", "WHILE", "x">>, <<"SP", "DO", "x">>, <<"SP", "ENDDO">>,
         <<"SP", "ENDWHILE">>, <<"SP", "ENDLOOP">>, <<"ENDLOOP">>,
         <<"SELECT", "x", "FAE", "y">> >>,
      \* the example payload of app/schemas.py
      << <<"LOOP", "x">>, <<"SP", "SELECT", "x">>, <<"ENDLOOP">>,
         <<"SELECT", "x", "FAE", "y">> >>,
      \* three properly nested blocks
      << <<"LOOP">>, <<"LOOP">>, <<"LOOP">>, <<"ENDLOOP">>, <<"ENDLOOP">>, <<"ENDLOOP">> >>,
      << <<"LOOP">>, <<"DO">>, <<"WHILE">>, <<"ENDWHILE">>, <<"ENDDO">>, <<"ENDLOOP">> >>,
      \* a retrieval inside a WHILE inside a LOOP
      << <<"LOOP">>, <<"WHILE">>, <<"SELECT">>, <<"ENDWHILE">>, <<"ENDLOOP">> >>,
      \* retrievals inside and after an inner block
      << <<"LOOP">>, <<"WHILE">>, <<"SELECT">>, <<"ENDWHILE">>, <<"SELECT">>, <<"ENDLOOP">> >>,
      << <<"LOOP">>, <<"SELECT">>, <<"DO">>, <<"SELECT">>, <<"ENDDO">>, <<"SELECT">>,
         <<"ENDLOOP">> >>,
      \* an inner block whose close is 11 lines after its opening
      << <<"LOOP">>, <<"WHILE">> >> \o X10 \o << <<"ENDWHILE">>, <<"ENDLOOP">> >>,
      \* an inner block whose close is 13 lines after its opening
      << <<"LOOP">>, <<"WHILE">> >> \o X10 \o << <<"x">>, <<"y">>, <<"ENDWHILE">> >>,
      \* an inner block never closed, followed by more than 5 lines
      << <<"LOOP">>, <<"WHILE">> >> \o SubSeq(X10, 1, 7),
      \* unterminated block followed by a retrieval
      << <<"LOOP", "x">>, <<"SELECT">>, <<"x">>, <<"ENDWHILE">>, <<"SELECT">>, <<"x">> >>,
      \* a bulk retrieval alone
      << <<"SELECT", "x", "FAE", "y">> >>,
      \* interleaved kinds
      << <<"LOOP">>, <<"WHILE">>, <<"DO">>, <<"ENDLOOP">>, <<"SELECT">>, <<"ENDDO">>,
         <<"ENDWHILE">> >>,
      \* an inner block, then an opening that the outer closing discards
      << <<"LOOP">>, <<"WHILE">>, <<"ENDWHILE">>, <<"DO">>, <<"ENDLOOP">>, <<"ENDDO">> >>,
      \* the bulk-retrieval phrase on an opening line, in a block and after
      \* an unterminated one
      << <<"LOOP", "x", "FAE">>, <<"SP", "SELECT", "FAE">>, <<"ENDLOOP", "FAE">>,
         <<"DO">>, <<"x", "FAE", "y">> >> }

\* Inputs with carriage returns: CR LF and a lone CR both end a line.
ScenarioTexts ==
    { <<"LOOP", "CR", "NL", "SP", "LOOP", "CR", "SELECT", "NL", "ENDLOOP", "CR", "NL",
        "ENDLOOP", "NL">> }

Present(S) == {<<v>> : v \in S}

DefaultMeta == [pgm_name |-> <<"Z_DEMO">>, inc_name |-> <<"Z_INC">>,
                type |-> <<"PROG">>, name |-> <<"MAIN">>, start_line |-> <<1>>]

\* start_line values: absent, zero, one, a larger offset, a negative one
StartLines == {<<>>} \cup Present({0, 1, 7, -3})

Metas == {[pgm_name |-> n.p, inc_name |-> n.i, type |-> n.t, name |-> n.n, start_line |-> sl] :
            n \in {[p |-> <<"Z_DEMO">>, i |-> <<"Z_INC">>, t |-> <<"PROG">>, n |-> <<"MAIN">>],
                   [p |-> <<>>, i |-> <<"Z_INC">>, t |-> <<>>, n |-> <<>>]},
            sl \in StartLines}

WithCode(meta, code) ==
    [pgm_name |-> meta.pgm_name, inc_name |-> meta.inc_name, type |-> meta.type,
     name |-> meta.name, start_line |-> meta.start_line, code |-> code]

ExhaustiveCodes ==
    {<<join_nl(ls)>> : ls \in SeqsUpTo(LinesA, MaxLen) \cup SeqsUpTo(LinesB, MaxLen)}

ScenarioCodes ==
    {<<>>} \cup {<<join_nl(ls)>> : ls \in ScenarioLines} \cup Present(ScenarioTexts)

Items ==
    {WithCode(DefaultMeta, c) : c \in ExhaustiveCodes}
    \cup {WithCode(m, c) : m \in Metas, c \in ScenarioCodes}

-----------------------------------------------------------------------------
(* analyze_item, one action per statement group *)

Init ==
    /\ item \in Items
    /\ pc = "start"
    /\ lines = <<>>
    /\ raw_findings = <<>>
    /\ loop_blocks = <<>>
    /\ reads = {}
    /\ result = <<>>

\* lines = build_lines(code)
BuildLines ==
    /\ pc = "start"
    /\ lines' = build_lines(code_of(item))
    /\ pc' = "built"
    /\ UNCHANGED <<item, raw_findings, loop_blocks, reads, result>>

\* raw_findings.extend(find_nested_loops(lines))
FindNestedLoops ==
    /\ pc = "built"
    /\ raw_findings' = raw_findings \o find_nested_loops(lines)
    /\ reads' = reads \cup find_nested_loops_reads(lines)
    /\ pc' = "nested"
    /\ UNCHANGED <<item, lines, loop_blocks, result>>

\* loop_blocks = collect_loop_blocks(lines)
CollectLoopBlocks ==
    /\ pc = "nested"
    /\ loop_blocks' = collect_loop_blocks(lines)
    /\ pc' = "collected"
    /\ UNCHANGED <<item, lines, raw_findings, reads, result>>

\* raw_findings.extend(find_select_inside_loops(lines, loop_blocks))
FindSelectInsideLoops ==
    /\ pc = "collected"
    /\ raw_findings' = raw_findings \o find_select_inside_loops(lines, loop_blocks)
    /\ reads' = reads \cup find_select_inside_loops_reads(lines, loop_blocks)
    /\ pc' = "selected"
    /\ UNCHANGED <<item, lines, loop_blocks, result>>

\* raw_findings.extend(find_for_all_entries(lines))
FindForAllEntries ==
    /\ pc = "selected"
    /\ raw_findings' = raw_findings \o find_for_all_entries(lines)
    /\ reads' = reads \cup find_for_all_entries_reads(lines)
    /\ pc' = "scanned"
    /\ UNCHANGED <<item, lines, loop_blocks, result>>

\* the final-format response is built and returned
Assemble ==
    /\ pc = "scanned"
    /\ result' = <<analyze_result(item, raw_findings)>>
    /\ pc' = "done"
    /\ UNCHANGED <<item, lines, raw_findings, loop_blocks, reads>>

Next ==
    \/ BuildLines
    \/ FindNestedLoops
    \/ CollectLoopBlocks
    \/ FindSelectInsideLoops
    \/ FindForAllEntries
    \/ Assemble

Spec == Init /\ [][Next]_vars

-----------------------------------------------------------------------------
(* Vocabulary of the properties *)

AfterNested == {"nested", "collected", "selected", "scanned", "done"}
AfterCollect == {"collected", "selected", "scanned", "done"}
AfterSelect == {"selected", "scanned", "done"}
AfterScan == {"scanned", "done"}

RECURSIVE OfRule(_, _)
OfRule(fs, suggestion) ==
    IF fs = <<>> THEN <<>>
    ELSE (IF Head(fs).suggestion = suggestion THEN <<Head(fs)>> ELSE <<>>)
         \o OfRule(Tail(fs), suggestion)

NestedFound == OfRule(raw_findings, SUGGEST_NESTED_LOOPS)
SelectFound == OfRule(raw_findings, SUGGEST_SELECT_IN_LOOP)
FaeFound == OfRule(raw_findings, SUGGEST_FOR_ALL_ENTRIES)

LinesOf(fs) == [k \in 1..Len(fs) |-> fs[k].line]
CountAt(fs, line_no) == Cardinality({k \in 1..Len(fs) : fs[k].line = line_no})

Indices(ls) == 0..(Len(ls) - 1)

\* line index i is a block opening / a block closing for the scanners
Opens(ls, i) ==
    ~IsBlank(clean_at(ls, i)) /\ is_loop_start(clean_at(ls, i)) # None
Closes(ls, i) ==
    /\ ~IsBlank(clean_at(ls, i))
    /\ is_loop_start(clean_at(ls, i)) = None
    /\ is_loop_end(clean_at(ls, i)) # None
OpenKind(ls, i) == is_loop_start(clean_at(ls, i))
CloseKind(ls, i) == is_loop_end(clean_at(ls, i))

\* the openings still open when line i is reached: an opening joins them, a
\* closing that finds openings of its kind among them leaves those before the
\* latest such opening, any other line leaves them as they are
OpenAfter(before, ls, c) ==
    IF Opens(ls, c) THEN before \cup {c}
    ELSE IF Closes(ls, c)
            /\ \E m \in before : OpenKind(ls, m) = CloseKind(ls, c)
    THEN {j \in before :
            \E m \in before : OpenKind(ls, m) = CloseKind(ls, c) /\ j < m}
    ELSE before

RECURSIVE OpenBefore(_, _)
OpenBefore(ls, i) ==
    IF i = 0 THEN {} ELSE OpenAfter(OpenBefore(ls, i - 1), ls, i - 1)

NestedOpenings(ls) ==
    {i \in Indices(ls) : Opens(ls, i) /\ OpenBefore(ls, i) # {}}

\* three properly nested blocks and nothing else
ThreeNested(ls) ==
    /\ Len(ls) = 6
    /\ \A i \in 0..2 : Opens(ls, i)
    /\ \A i \in 3..5 : Closes(ls, i) /\ CloseKind(ls, i) = OpenKind(ls, 5 - i)

\* LOOP / WHILE / ENDWHILE / ENDLOOP
WhileInLoop(ls) ==
    /\ Len(ls) = 4
    /\ Opens(ls, 0) /\ OpenKind(ls, 0) = "LOOP"
    /\ Opens(ls, 1) /\ OpenKind(ls, 1) = "WHILE"
    /\ Closes(ls, 2) /\ CloseKind(ls, 2) = "WHILE"
    /\ Closes(ls, 3) /\ CloseKind(ls, 3) = "LOOP"

\* LOOP / WHILE / SELECT / ENDWHILE / ENDLOOP
SelectInWhileInLoop(ls) ==
    /\ Len(ls) = 5
    /\ Opens(ls, 0) /\ OpenKind(ls, 0) = "LOOP"
    /\ Opens(ls, 1) /\ OpenKind(ls, 1) = "WHILE"
    /\ RE_SELECT_SQL(clean_at(ls, 2))
    /\ Closes(ls, 3) /\ CloseKind(ls, 3) = "WHILE"
    /\ Closes(ls, 4) /\ CloseKind(ls, 4) = "LOOP"

-----------------------------------------------------------------------------
(* C1: find_nested_loops reports each block opening that is reached while
   some earlier opening is still open, exactly once and with that line's
   number, and reports no other line; three properly nested blocks give two
   findings (lines 2 and 3), LOOP WHILE ENDWHILE ENDLOOP gives one (line 2). *)
C1_NestedOpeningsReported ==
    pc \in AfterNested =>
        /\ \A i \in Indices(lines) :
              CountAt(NestedFound, i + 1) = IF i \in NestedOpenings(lines) THEN 1 ELSE 0
        /\ \A k \in 1..Len(NestedFound) : NestedFound[k].line \in 1..Len(lines)
        /\ ThreeNested(lines) => LinesOf(NestedFound) = <<2, 3>>
        /\ WhileInLoop(lines) => LinesOf(NestedFound) = <<2>>

C1_Witness ==
    /\ pc = "done"
    /\ ThreeNested(lines)
    /\ Len(NestedFound) = 2

-----------------------------------------------------------------------------
(* C2: a SELECT line gets one retrieval-in-block finding per span of
   collect_loop_blocks that contains it (start < line <= end), a line that is
   no SELECT gets none, and a finding needs an opening before the line and a
   closing of that kind at or after it, so an unterminated block gives none.
   A SELECT in a WHILE in a LOOP is reported for the LOOP and for the WHILE. *)
SpansAround(i) ==
    {b \in 1..Len(loop_blocks) :
        loop_blocks[b].start_idx < i /\ i <= loop_blocks[b].end_idx}

C2_SelectPerContainingSpan ==
    pc \in AfterSelect =>
        /\ \A i \in Indices(lines) :
              CountAt(SelectFound, i + 1) =
                 IF RE_SELECT_SQL(clean_at(lines, i))
                 THEN Cardinality(SpansAround(i)) ELSE 0
        /\ \A k \in 1..Len(SelectFound) :
              /\ SelectFound[k].line \in 1..Len(lines)
              /\ \E o \in 0..(SelectFound[k].line - 2) :
                 \E c \in SelectFound[k].line..(Len(lines) - 1) :
                    /\ Opens(lines, o)
                    /\ Closes(lines, c)
                    /\ OpenKind(lines, o) = CloseKind(lines, c)
        /\ SelectInWhileInLoop(lines) =>
              /\ LinesOf(SelectFound) = <<3, 3>>
              /\ SelectFound[1].snippet = strip(lines[1].raw) \o <<"NL">> \o strip(lines[3].raw)
              /\ SelectFound[2].snippet = strip(lines[2].raw) \o <<"NL">> \o strip(lines[3].raw)

C2_Witness ==
    /\ pc = "done"
    /\ SelectInWhileInLoop(lines)
    /\ Len(SelectFound) = 2

-----------------------------------------------------------------------------
(* C3: find_for_all_entries reports each line whose comment-stripped text
   holds the phrase exactly once and no other line, wherever the line is;
   the snippet is the trimmed text of lines max(1, L-1) .. min(n, L+1), so a
   one-line input gives that line. *)
C3_BulkRetrievalPerLine ==
    pc \in AfterScan =>
        /\ \A i \in Indices(lines) :
              CountAt(FaeFound, i + 1) =
                 IF RE_FOR_ALL_ENTRIES(lines[i + 1].clean) THEN 1 ELSE 0
        /\ \A k \in 1..Len(FaeFound) :
              LET L == FaeFound[k].line
                  lo == Max(1, L - 1)
                  hi == Min(Len(lines), L + 1)
              IN  /\ L \in 1..Len(lines)
                  /\ FaeFound[k].snippet =
                        strip(join_nl([j \in 1..(hi - lo + 1) |-> lines[lo + j - 1].raw]))
        /\ (Len(lines) = 1 /\ Len(FaeFound) = 1) =>
              FaeFound[1].snippet = strip(lines[1].raw)

C3_Witness ==
    /\ pc = "done"
    /\ Len(lines) = 1
    /\ LinesOf(FaeFound) = <<1>>

-----------------------------------------------------------------------------
(* C4: with a start_line supplied, every finding has starting_line =
   ending_line = start_line + local line - 1; 1 stands in only when
   start_line is absent. *)
C4_AbsoluteLine ==
    pc = "done" =>
        \A k \in 1..Len(raw_findings) :
            LET offset == IF item.start_line = <<>> THEN 1 ELSE item.start_line[1]
                f == result[1].findings[k]
            IN  /\ f.starting_line = offset + raw_findings[k].line - 1
                /\ f.ending_line = f.starting_line

-----------------------------------------------------------------------------
(* C5: the findings are in rule order (nested-block, retrieval-in-block,
   bulk-retrieval) and, within one rule, their local line numbers never
   decrease. *)
RuleRank(suggestion) ==
    CASE suggestion = SUGGEST_NESTED_LOOPS -> 1
      [] suggestion = SUGGEST_SELECT_IN_LOOP -> 2
      [] suggestion = SUGGEST_FOR_ALL_ENTRIES -> 3

RuleOrder(fs) ==
    \A k \in 1..(Len(fs) - 1) :
        RuleRank(fs[k].suggestion) <= RuleRank(fs[k + 1].suggestion)

Increasing(ns) == \A k \in 1..(Len(ns) - 1) : ns[k] < ns[k + 1]

C5_LineOrderWithinRule ==
    pc = "done" =>
        /\ RuleOrder(result[1].findings)
        /\ \A k \in 1..(Len(raw_findings) - 1) :
              raw_findings[k].suggestion = raw_findings[k + 1].suggestion
                 => raw_findings[k].line <= raw_findings[k + 1].line

(* C5 as amended: rule order holds; nested-block and bulk-retrieval findings
   are in increasing line order; retrieval-in-block findings come span by
   span in the order of the spans' starts, in increasing line order within a
   span, so their line numbers can decrease from one span to the next. *)
RECURSIVE AscendingSeq(_)
AscendingSeq(S) ==
    IF S = {} THEN <<>>
    ELSE LET m == CHOOSE x \in S : \A y \in S : x <= y
         IN  <<m>> \o AscendingSeq(S \ {m})

SelectsOfSpan(b) ==
    LET hits == AscendingSeq({i \in (b.start_idx + 1)..b.end_idx :
                                RE_SELECT_SQL(clean_at(lines, i))})
    IN  [k \in 1..Len(hits) |->
            <<hits[k] + 1, strip(raw_at(lines, b.start_idx)), strip(raw_at(lines, hits[k]))>>]

RECURSIVE SpanBySpan(_)
SpanBySpan(spans) ==
    IF spans = {} THEN <<>>
    ELSE LET b == CHOOSE x \in spans : \A y \in spans : x.start_idx <= y.start_idx
         IN  SelectsOfSpan(b) \o SpanBySpan(spans \ {b})

C5_SpanOrderWithinRetrievalRule ==
    pc = "done" =>
        /\ RuleOrder(result[1].findings)
        /\ Len(result[1].findings) = Len(raw_findings)
        /\ \A k \in 1..Len(raw_findings) :
              result[1].findings[k].snippet = raw_findings[k].snippet
        /\ Increasing(LinesOf(NestedFound))
        /\ Increasing(LinesOf(FaeFound))
        /\ LET expected == SpanBySpan({loop_blocks[b] : b \in 1..Len(loop_blocks)})
           IN  /\ Len(SelectFound) = Len(expected)
               /\ \A k \in 1..Len(expected) :
                     /\ SelectFound[k].line = expected[k][1]
                     /\ SelectFound[k].snippet = expected[k][2] \o <<"NL">> \o expected[k][3]

C5_Witness ==
    /\ pc = "done"
    /\ \E k \in 1..(Len(SelectFound) - 1) : SelectFound[k].line > SelectFound[k + 1].line

-----------------------------------------------------------------------------
(* C6: for every input analyze_item runs to its return without a fault: every
   line index a rule reads is one of 0 .. len(lines)-1, no snippet is built
   from a line that does not exist, every finding and span lies inside the
   input, and the returned record carries the input's pgm_name, inc_name,
   type and name. *)
C6_NoFaultIdentityKept ==
    /\ pc # "start" => Len(lines) >= 1 /\ reads \subseteq Indices(lines)
    /\ \A k \in 1..Len(raw_findings) :
          /\ raw_findings[k].line \in 1..Len(lines)
          /\ \A t \in 1..Len(raw_findings[k].snippet) :
                raw_findings[k].snippet[t] # "IndexError"
    /\ \A b \in 1..Len(loop_blocks) :
          {loop_blocks[b].start_idx, loop_blocks[b].end_idx} \subseteq Indices(lines)
    /\ pc = "done" =>
          /\ Len(result) = 1
          /\ result[1].code = code_of(item)
          /\ result[1].pgm_name = item.pgm_name
          /\ result[1].inc_name = item.inc_name
          /\ result[1].type = item.type
          /\ result[1].name = item.name

\* a malformed input has been analysed: a closing with no opening of its
\* kind before it, an opening never closed, and findings were built
C6_Witness ==
    /\ pc = "done"
    /\ reads # {}
    /\ \E c \in Indices(lines) :
          /\ Closes(lines, c)
          /\ \A o \in 0..(c - 1) : ~(Opens(lines, o) /\ OpenKind(lines, o) = CloseKind(lines, c))
    /\ \E o \in Indices(lines) :
          /\ Opens(lines, o)
          /\ \A b \in 1..Len(loop_blocks) : loop_blocks[b].start_idx # o

-----------------------------------------------------------------------------
(* C7: a line whose first non-blank character is * is never the line of a
   finding and never the start or end of a span, and the rule and line of
   every finding are what they are with that line replaced by a blank one. *)
IsCommentLine(raw) == lstrip(raw) # <<>> /\ Head(lstrip(raw)) = "STAR"

Blanked(ls) ==
    build_lines(join_nl([k \in 1..Len(ls) |->
                            IF IsCommentLine(ls[k].raw) THEN <<>> ELSE ls[k].raw]))

RawFindingsOf(ls) ==
    find_nested_loops(ls)
    \o find_select_inside_loops(ls, collect_loop_blocks(ls))
    \o find_for_all_entries(ls)

Keys(fs) == [k \in 1..Len(fs) |-> <<fs[k].suggestion, fs[k].line>>]

C7_CommentLinesMatchNothing ==
    pc = "done" =>
        /\ \A k \in 1..Len(raw_findings) :
              ~IsCommentLine(lines[raw_findings[k].line].raw)
        /\ \A b \in 1..Len(loop_blocks) :
              /\ ~IsCommentLine(raw_at(lines, loop_blocks[b].start_idx))
              /\ ~IsCommentLine(raw_at(lines, loop_blocks[b].end_idx))
        /\ \A i \in Indices(lines) :
              IsCommentLine(raw_at(lines, i)) => ~Opens(lines, i) /\ ~Closes(lines, i)
        /\ Keys(raw_findings) = Keys(RawFindingsOf(Blanked(lines)))

\* a comment line holding the bulk-retrieval phrase, inside an input with findings
C7_Witness ==
    /\ pc = "done"
    /\ raw_findings # <<>>
    /\ \E i \in Indices(lines) :
          /\ IsCommentLine(raw_at(lines, i))
          /\ RE_FOR_ALL_ENTRIES(raw_at(lines, i))

-----------------------------------------------------------------------------
(* C8: a nested-block snippet starts at the inner opening line; with a
   matching close it runs through that close but never covers more than 11
   lines, without one it covers the opening line and at most the 5 lines
   after it, clamped at the end of the input. *)
SnippetLineCount(snippet) ==
    1 + Cardinality({t \in 1..Len(snippet) : snippet[t] = "NL"})

C8_SnippetAtMostElevenLines ==
    pc \in AfterNested =>
        \A k \in 1..Len(NestedFound) :
            LET s == NestedFound[k].line - 1
                e == find_matching_end(lines, s, OpenKind(lines, s))
                last == IF e # NoMatch THEN Min(e, s + 10) ELSE Min(Len(lines) - 1, s + 5)
            IN  /\ NestedFound[k].snippet = strip(join_nl(raw_range(lines, s, last)))
                /\ SnippetLineCount(NestedFound[k].snippet) <= IF e # NoMatch THEN 11 ELSE 6

-----------------------------------------------------------------------------
(* C9: the spans of collect_loop_blocks are sorted by start, each runs from
   an opening to a later closing of its kind, no line starts or ends two
   spans, and two spans are disjoint or one lies strictly inside the other. *)
C9_SpansWellNested ==
    pc \in AfterCollect =>
        /\ \A b \in 1..(Len(loop_blocks) - 1) :
              loop_blocks[b].start_idx < loop_blocks[b + 1].start_idx
        /\ \A b \in 1..Len(loop_blocks) :
              LET sp == loop_blocks[b]
              IN  /\ 0 <= sp.start_idx /\ sp.start_idx < sp.end_idx /\ sp.end_idx < Len(lines)
                  /\ Opens(lines, sp.start_idx) /\ OpenKind(lines, sp.start_idx) = sp.type
                  /\ Closes(lines, sp.end_idx) /\ CloseKind(lines, sp.end_idx) = sp.type
        /\ \A a \in 1..Len(loop_blocks), b \in 1..Len(loop_blocks) :
              a # b =>
                 LET x == loop_blocks[a]
                     y == loop_blocks[b]
                 IN  /\ x.start_idx # y.start_idx
                     /\ x.end_idx # y.end_idx
                     /\ \/ x.end_idx < y.start_idx
                        \/ y.end_idx < x.start_idx
                        \/ x.start_idx < y.start_idx /\ y.end_idx < x.end_idx
                        \/ y.start_idx < x.start_idx /\ x.end_idx < y.end_idx

\* a closing of an outer kind has discarded an open inner block, and a span
\* lies inside another one
C9_Witness ==
    /\ pc = "done"
    /\ \E a \in 1..Len(loop_blocks), b \in 1..Len(loop_blocks) :
          /\ loop_blocks[a].start_idx < loop_blocks[b].start_idx
          /\ loop_blocks[b].end_idx < loop_blocks[a].end_idx
          /\ \E o \in (loop_blocks[b].end_idx + 1)..(loop_blocks[a].end_idx - 1) :
                /\ Opens(lines, o)
                /\ \A c \in 1..Len(loop_blocks) : loop_blocks[c].start_idx # o

-----------------------------------------------------------------------------
(* C10: on properly nested input (each closing has the kind of the latest
   still-open opening, every opening is closed) find_matching_end gives, for
   every opening, the end of the span collect_loop_blocks records for it, and
   a nested-block snippet that is not cut by the cap ends at that span's end. *)
RECURSIVE ProperFrom(_, _, _)
ProperFrom(ls, i, open) ==
    IF i >= Len(ls) THEN open = <<>>
    ELSE IF Opens(ls, i) THEN ProperFrom(ls, i + 1, Append(open, OpenKind(ls, i)))
    ELSE IF Closes(ls, i)
    THEN /\ open # <<>>
         /\ open[Len(open)] = CloseKind(ls, i)
         /\ ProperFrom(ls, i + 1, SubSeq(open, 1, Len(open) - 1))
    ELSE ProperFrom(ls, i + 1, open)

ProperlyNested(ls) == ProperFrom(ls, 0, <<>>)

====
